---- MODULE Spec2Model ----
(***************************************************************************)
(* Model of src/src/App.tsx: the CubeChessPrototype viewer.                *)
(*                                                                         *)
(*  - Spec     : the lifecycle of one useEffect run (init, the resize      *)
(*               listener, the animation loop, the cleanup closure and the *)
(*               effect's returned cleanup), driven by the host (React,    *)
(*               the window, the module loader).                           *)
(*  - SpecGrid : the pure function buildCubeGrid(n, size) applied to       *)
(*               GridSpecs drawn from bounded sets.                        *)
(*                                                                         *)
(* Units.  Pixel lengths are kept in twentieths of a pixel (PxScale), so   *)
(* that 0.45 * innerHeight is exact.  Ratios (camera.aspect) are kept as   *)
(* unreduced fractions <<num, den>> and compared by cross multiplication.  *)
(* World coordinates inside buildCubeGrid(n, size) are kept in units of    *)
(* 1 / (1000 * 2 * n) world units, so that size / 2, size / n and the      *)
(* 0.001 face offset are all exact integers.  Floating point rounding      *)
(* (IEEE doubles, the Float32 buffer) is not modelled.                     *)
(***************************************************************************)
EXTENDS Integers, Sequences, FiniteSets, TLC

VARIABLES
    \* ---- host / window state -------------------------------------------
    mount,            \* mountRef.current is a live element (FALSE: null)
    mountW,           \* mountRef.current.clientWidth, in pixels
    innerH,           \* window.innerHeight, in pixels
    childAttached,    \* renderer.domElement is a child of the mount element
    listener,         \* onResize is registered on window for "resize"
    pendingFrames,    \* handles of requested, not yet run or cancelled frames
    nextHandle,       \* the handle requestAnimationFrame returns next
    errLog,           \* what console.error was called with, in order
    \* ---- the effect's closure variables (lines 13-15, 94) ---------------
    pc,               \* position of init: idle / awaitThree / awaitControls /
                      \*                   done / failed
    cleanupPromise,   \* line 94: TRUE once the then-callback stored cleanup
    rendererSt,       \* "none" / "live" / "disposed"
    controlsSt,       \* "none" / "live" / "disposed"
    surface,          \* <<width, height>> last given to renderer.setSize
    aspect,           \* camera.aspect, a fraction <<num, den>>
    projAspect,       \* the aspect the projection matrix was computed from
    scene,            \* the children added to the scene, in order
    cubeGroup,        \* line 15: the group buildCubeGrid returned
    animId,           \* line 14: 0 is undefined
    \* ---- observation (history) variables ------------------------------
    frames,           \* number of runs of animate (controls.update + render)
    rendererDisposals,
    controlsDisposals,
    detachCalls,      \* runs of the effect's returned cleanup (lines 97-99)
    closureCalls,     \* runs of init's cleanup closure (lines 85-91)
    closureThrows,    \* how many of them raised
    lastThrow,        \* what the last handler run raised ("none": nothing)
    tdLog,            \* the statements the last run of the closure executed
                      \* (the last of them may have thrown)
    tdWhilePending,   \* the effect's cleanup ran while init was at an await
    tdMountMissing,   \* the closure ran with mountRef.current = null
    lastResize,       \* <<w, vh>> of the last resize event onResize handled
    \* ---- the GridSpec handed to buildCubeGrid ---------------------------
    gn, gsize

hostVars == <<mount, mountW, innerH, childAttached, listener, pendingFrames,
              nextHandle, errLog>>
sessVars == <<pc, cleanupPromise, rendererSt, controlsSt, surface, aspect,
              projAspect, scene, cubeGroup, animId>>
histVars == <<frames, rendererDisposals, controlsDisposals, detachCalls,
              closureCalls, closureThrows, lastThrow, tdLog, tdWhilePending,
              tdMountMissing, lastResize>>
gridVars == <<gn, gsize>>
vars == <<hostVars, sessVars, histVars, gridVars>>

(***************************************************************************)
(* Bounds                                                                  *)
(***************************************************************************)
MaxFrames == 3      \* frame ticks explored per session
MaxDetach == 2      \* invocations of the effect's cleanup explored
MaxW == 2           \* mount widths explored: 400, .. 400 * MaxW pixels
MaxVh == 2          \* viewport heights explored: 600, .. 600 * MaxVh pixels
MaxN == 4           \* subdivision counts explored: 1 .. MaxN
MaxSizeK == 14      \* cube sizes explored: 0.3, 0.6, .. 0.3 * MaxSizeK

Widths == {400 * k : k \in 1..MaxW}
Heights == {600 * k : k \in 1..MaxVh}
GridNs == 1..MaxN
GridSizes == {300 * k : k \in 1..MaxSizeK}

(***************************************************************************)
(* Arithmetic helpers                                                      *)
(***************************************************************************)
PxScale == 20           \* twentieths of a pixel: 0.45 is 9 / PxScale

Max(a, b) == IF a >= b THEN a ELSE b

\* a / b as an exact fraction
Ratio(a, b) == <<a, b>>

\* THREE.Vector3: add and multiplyScalar
VAdd(v, w) == <<v[1] + w[1], v[2] + w[2], v[3] + w[3]>>
VScale(v, k) == <<v[1] * k, v[2] * k, v[3] * k>>

(***************************************************************************)
(* buildCubeGrid (lines 192-281)                                           *)
(*                                                                         *)
(* size is given in thousandths of a world unit (2.4 is 2400).  Inside,    *)
(* one unit is 1 / GridUnit(n) thousandths, so 0.001 is GridUnit(n).       *)
(***************************************************************************)
DefaultN == 3
DefaultSize == 2400

GridUnit(n) == 2 * n

\* line 216: const half = size / 2
half(n, size) == (size * GridUnit(n)) \div 2
\* line 217: const step = size / n
step(n, size) == (size * GridUnit(n)) \div n
\* the 0.001 of lines 253-273
faceEps(n) == GridUnit(n)

\* lines 222-244: the loop body from index i on; the flat position array
RECURSIVE faceLoop(_, _, _, _, _, _, _)
faceLoop(i, offset, uDir, vDir, n, hf, st) ==
    IF i < n
    THEN LET a == VAdd(VAdd(offset, VScale(uDir, -hf)), VScale(vDir, -hf + i * st))
             b == VAdd(VAdd(offset, VScale(uDir, hf)), VScale(vDir, -hf + i * st))
             c == VAdd(VAdd(offset, VScale(uDir, -hf + i * st)), VScale(vDir, -hf))
             d == VAdd(VAdd(offset, VScale(uDir, -hf + i * st)), VScale(vDir, hf))
         IN  <<a[1], a[2], a[3], b[1], b[2], b[3]>>
                 \o <<c[1], c[2], c[3], d[1], d[2], d[3]>>
                 \o faceLoop(i + 1, offset, uDir, vDir, n, hf, st)
    ELSE <<>>

\* a loop that starts at index 0: one line pair too many, on the face border
makeFaceGrid_fromZero(offset, uDir, vDir, n, hf, st) ==
    faceLoop(0, offset, uDir, vDir, n, hf, st)

\* lines 220-249: the position buffer of one face's LineSegments
makeFaceGrid(offset, uDir, vDir, n, hf, st) ==
    faceLoop(1, offset, uDir, vDir, n, hf, st)

\* the top face spanned by x and y instead of x and z
cubeFaces_badTop(hf, eps) ==
    << [offset |-> <<0, 0, hf + eps>>,  uDir |-> <<1, 0, 0>>,  vDir |-> <<0, 1, 0>>],
       [offset |-> <<0, 0, -hf - eps>>, uDir |-> <<-1, 0, 0>>, vDir |-> <<0, 1, 0>>],
       [offset |-> <<hf + eps, 0, 0>>,  uDir |-> <<0, 0, -1>>, vDir |-> <<0, 1, 0>>],
       [offset |-> <<-hf - eps, 0, 0>>, uDir |-> <<0, 0, 1>>,  vDir |-> <<0, 1, 0>>],
       [offset |-> <<0, hf + eps, 0>>,  uDir |-> <<1, 0, 0>>,  vDir |-> <<0, 1, 0>>],
       [offset |-> <<0, -hf - eps, 0>>, uDir |-> <<1, 0, 0>>,  vDir |-> <<0, 0, 1>>] >>

\* lines 251-274: the six faces, +Z -Z +X -X +Y -Y, as passed to makeFaceGrid
cubeFaces(hf, eps) ==
    << [offset |-> <<0, 0, hf + eps>>,  uDir |-> <<1, 0, 0>>,  vDir |-> <<0, 1, 0>>],
       [offset |-> <<0, 0, -hf - eps>>, uDir |-> <<-1, 0, 0>>, vDir |-> <<0, 1, 0>>],
       [offset |-> <<hf + eps, 0, 0>>,  uDir |-> <<0, 0, -1>>, vDir |-> <<0, 1, 0>>],
       [offset |-> <<-hf - eps, 0, 0>>, uDir |-> <<0, 0, 1>>,  vDir |-> <<0, 1, 0>>],
       [offset |-> <<0, hf + eps, 0>>,  uDir |-> <<1, 0, 0>>,  vDir |-> <<0, 0, -1>>],
       [offset |-> <<0, -hf - eps, 0>>, uDir |-> <<1, 0, 0>>,  vDir |-> <<0, 0, 1>>] >>

\* lines 212-213: EdgesGeometry of a box: the segments between two corners
\* that differ in exactly one coordinate (the face diagonals of the
\* triangulation join coplanar triangles and are dropped)
boxEdges(hf) ==
    LET corners == {<<x, y, z>> : x \in {-hf, hf}, y \in {-hf, hf}, z \in {-hf, hf}}
        differ(p, q) == Cardinality({k \in 1..3 : p[k] # q[k]})
    IN  {{pq[1], pq[2]} : pq \in {e \in corners \X corners : differ(e[1], e[2]) = 1}}

\* the value of cubeGroup before init assigns it (line 15)
NoGroup ==
    [built |-> FALSE, box |-> 0, edges |-> {}, grids |-> <<>>, rotation |-> <<0, 0>>]

\* lines 192-281
buildCubeGrid(n, size) ==
    LET hf == half(n, size)
        st == step(n, size)
        faces == cubeFaces(hf, faceEps(n))
    IN  [built |-> TRUE,
         box |-> size * GridUnit(n),
         edges |-> boxEdges(hf),
         grids |-> [f \in 1..6 |->
                      makeFaceGrid(faces[f].offset, faces[f].uDir, faces[f].vDir,
                                   n, hf, st)],
         \* rotation.x = 0.15, rotation.y = -0.4
         rotation |-> <<150, -400>>]

(***************************************************************************)
(* init (lines 17-92): the handlers it defines                             *)
(***************************************************************************)
MinHeight == 400
HeightFactor == 9

\* lines 24, 69: Math.max(400, window.innerHeight * 0.45)
viewHeight(vh) == Max(MinHeight * PxScale, vh * HeightFactor)
\* lines 23, 68: mountRef.current.clientWidth
viewWidth(w) == w * PxScale

\* a handler that updates the projection before it sets the aspect
onResize_staleProjection(cam, w, vh) ==
    LET W == viewWidth(w)
        H == viewHeight(vh)
    IN  [surface |-> <<W, H>>, aspect |-> Ratio(W, H), projAspect |-> cam.aspect]

\* lines 67-73, mountRef.current not null; cam is the camera and surface state
onResize(cam, w, vh) ==
    LET W == viewWidth(w)
        H == viewHeight(vh)
        c1 == [cam EXCEPT !.surface = <<W, H>>]
        c2 == [c1 EXCEPT !.aspect = Ratio(W, H)]
    IN  [c2 EXCEPT !.projAspect = c2.aspect]

\* a loop that requests the next frame without keeping its handle
animate_handleLost(loop) ==
    [frames |-> loop.frames + 1,
     animId |-> loop.animId,
     pendingFrames |-> loop.pendingFrames \cup {loop.nextHandle},
     nextHandle |-> loop.nextHandle + 1]

\* lines 77-81: controls.update(); renderer.render(); animId = rAF(animate)
animate(loop) ==
    [frames |-> loop.frames + 1,
     animId |-> loop.nextHandle,
     pendingFrames |-> loop.pendingFrames \cup {loop.nextHandle},
     nextHandle |-> loop.nextHandle + 1]

\* the render loop as animate reads and writes it
Loop ==
    [frames |-> frames, animId |-> animId, pendingFrames |-> pendingFrames,
     nextHandle |-> nextHandle]

\* the closure with the frame cancelled last
cleanupSteps_cancelLast ==
    <<"removeEventListener", "controls.dispose", "renderer.dispose",
      "removeChild", "cancelAnimationFrame">>

\* a closure that never cancels the frame
cleanupSteps_noCancel ==
    <<"removeEventListener", "controls.dispose", "renderer.dispose", "removeChild">>

\* lines 86-90: the statements of the cleanup closure, in program order
cleanupSteps ==
    <<"removeEventListener", "cancelAnimationFrame", "controls.dispose",
      "renderer.dispose", "removeChild">>

\* one statement of the closure applied to the resources c
cleanupStep(c, stmt) ==
    LET done == [c EXCEPT !.log = Append(c.log, stmt)]
    IN  CASE stmt = "removeEventListener" ->
               [done EXCEPT !.listener = FALSE]
          [] stmt = "cancelAnimationFrame" ->
               [done EXCEPT !.pendingFrames = c.pendingFrames \ {c.animId}]
          [] stmt = "controls.dispose" ->
               [done EXCEPT !.controlsSt = "disposed",
                            !.controlsDisposals = c.controlsDisposals + 1]
          [] stmt = "renderer.dispose" ->
               [done EXCEPT !.rendererSt = "disposed",
                            !.rendererDisposals = c.rendererDisposals + 1]
          [] stmt = "removeChild" ->
               \* mountRef.current.removeChild(renderer.domElement)
               IF ~c.mount THEN [done EXCEPT !.thrown = "TypeError"]
               ELSE IF ~c.childAttached THEN [done EXCEPT !.thrown = "NotFoundError"]
               ELSE [done EXCEPT !.childAttached = FALSE]

\* the statements run in order until one throws
RECURSIVE runSteps(_, _)
runSteps(c, stmts) ==
    IF stmts = <<>> THEN c
    ELSE LET c2 == cleanupStep(c, Head(stmts))
         IN  IF c2.thrown # "none" THEN c2 ELSE runSteps(c2, Tail(stmts))

\* lines 85-91: one call of the closure init returned
cleanup(c) == runSteps([c EXCEPT !.thrown = "none", !.log = <<>>], cleanupSteps)

\* the resources the closure reads and writes
Resources ==
    [listener |-> listener, pendingFrames |-> pendingFrames, animId |-> animId,
     controlsSt |-> controlsSt, rendererSt |-> rendererSt,
     controlsDisposals |-> controlsDisposals,
     rendererDisposals |-> rendererDisposals,
     mount |-> mount, childAttached |-> childAttached,
     thrown |-> "none", log |-> <<>>]

(***************************************************************************)
(* The lifecycle: one run of the effect (lines 11-100)                     *)
(***************************************************************************)
NoRatio == Ratio(0, 1)

Init ==
    /\ mount = TRUE
    /\ mountW \in Widths
    /\ innerH \in Heights
    /\ childAttached = FALSE
    /\ listener = FALSE
    /\ pendingFrames = {}
    /\ nextHandle = 1
    /\ errLog = <<>>
    /\ pc = "idle"
    /\ cleanupPromise = FALSE
    /\ rendererSt = "none"
    /\ controlsSt = "none"
    /\ surface = <<0, 0>>
    /\ aspect = NoRatio
    /\ projAspect = NoRatio
    /\ scene = <<>>
    /\ cubeGroup = NoGroup
    /\ animId = 0
    /\ frames = 0
    /\ rendererDisposals = 0
    /\ controlsDisposals = 0
    /\ detachCalls = 0
    /\ closureCalls = 0
    /\ closureThrows = 0
    /\ lastThrow = "none"
    /\ tdLog = <<>>
    /\ tdWhilePending = FALSE
    /\ tdMountMissing = FALSE
    /\ lastResize = <<>>
    /\ gn = DefaultN
    /\ gsize = DefaultSize

\* lines 11-18, 94-95: the effect runs; init starts and suspends at the
\* import of three
EffectMount ==
    /\ pc = "idle"
    /\ pc' = "awaitThree"
    /\ UNCHANGED <<hostVars, cleanupPromise, rendererSt, controlsSt, surface,
                   aspect, projAspect, scene, cubeGroup, animId, histVars,
                   gridVars>>

\* lines 18-19: the import of three resolves; init suspends at the import of
\* OrbitControls
ImportThreeResolves ==
    /\ pc = "awaitThree"
    /\ pc' = "awaitControls"
    /\ UNCHANGED <<hostVars, cleanupPromise, rendererSt, controlsSt, surface,
                   aspect, projAspect, scene, cubeGroup, animId, histVars,
                   gridVars>>

\* a rejected import is awaited again
ImportRejects_retry ==
    /\ pc \in {"awaitThree", "awaitControls"}
    /\ pc' = "awaitThree"
    /\ errLog' = Append(errLog, "ImportError")
    /\ UNCHANGED <<mount, mountW, innerH, childAttached, listener,
                   pendingFrames, nextHandle, cleanupPromise, rendererSt,
                   controlsSt, surface, aspect, projAspect, scene, cubeGroup,
                   animId, histVars, gridVars>>

\* lines 18-19, 95: either import rejects; init's promise rejects, the then
\* callback is skipped and catch(console.error) reports the reason
ImportRejects ==
    /\ pc \in {"awaitThree", "awaitControls"}
    /\ pc' = "failed"
    /\ errLog' = Append(errLog, "ImportError")
    /\ UNCHANGED <<mount, mountW, innerH, childAttached, listener,
                   pendingFrames, nextHandle, cleanupPromise, rendererSt,
                   controlsSt, surface, aspect, projAspect, scene, cubeGroup,
                   animId, histVars, gridVars>>

\* lines 19-92, 95: the import of OrbitControls resolves and init runs to its
\* end without suspending again.  With mountRef.current null, line 23 throws
\* a TypeError, init's promise rejects and the error is logged.  Otherwise
\* the session is set up, animate runs once, and the then callback of line
\* 95 stores the returned closure (it runs in the same microtask checkpoint,
\* before any event, frame or effect can).
InitContinues ==
    /\ pc = "awaitControls"
    /\ IF ~mount
       THEN /\ pc' = "failed"
            /\ errLog' = Append(errLog, "TypeError")
            /\ UNCHANGED <<mount, mountW, innerH, childAttached, listener,
                           pendingFrames, nextHandle, cleanupPromise,
                           rendererSt, controlsSt, surface, aspect, projAspect,
                           scene, cubeGroup, animId, histVars, gridVars>>
       ELSE LET W == viewWidth(mountW)
                H == viewHeight(innerH)
                l == animate(Loop)
            IN  /\ rendererSt' = "live"
                /\ surface' = <<W, H>>
                /\ childAttached' = TRUE
                /\ aspect' = Ratio(W, H)
                /\ projAspect' = Ratio(W, H)
                /\ controlsSt' = "live"
                /\ cubeGroup' = buildCubeGrid(gn, gsize)
                /\ scene' = <<"AmbientLight", "DirectionalLight", "cubeGroup", "plane">>
                /\ listener' = TRUE
                /\ frames' = l.frames
                /\ animId' = l.animId
                /\ pendingFrames' = l.pendingFrames
                /\ nextHandle' = l.nextHandle
                /\ pc' = "done"
                /\ cleanupPromise' = TRUE
                /\ UNCHANGED <<mount, mountW, innerH, errLog, rendererDisposals,
                               controlsDisposals, detachCalls, closureCalls,
                               closureThrows, lastThrow, tdLog, tdWhilePending,
                               tdMountMissing, lastResize, gridVars>>

\* the browser runs the requested frame callback h: animate (lines 77-81)
FrameTick ==
    /\ frames < MaxFrames
    /\ \E h \in pendingFrames :
         LET l == animate([Loop EXCEPT !.pendingFrames = pendingFrames \ {h}])
         IN  /\ frames' = l.frames
             /\ animId' = l.animId
             /\ pendingFrames' = l.pendingFrames
             /\ nextHandle' = l.nextHandle
    /\ UNCHANGED <<mount, mountW, innerH, childAttached, listener, errLog,
                   pc, cleanupPromise, rendererSt, controlsSt, surface, aspect,
                   projAspect, scene, cubeGroup, rendererDisposals,
                   controlsDisposals, detachCalls, closureCalls, closureThrows,
                   lastThrow, tdLog, tdWhilePending, tdMountMissing, lastResize,
                   gridVars>>

\* the window is resized to viewport height vh, the mount region (if still
\* there) to width w, and the resize event is dispatched: onResize (lines
\* 67-73) runs if it is registered; with mountRef.current null line 68 throws
Resize(w, vh) ==
    /\ innerH' = vh
    /\ mountW' = IF mount THEN w ELSE mountW
    /\ IF listener
       THEN IF mount
            THEN LET c == onResize([surface |-> surface, aspect |-> aspect,
                                    projAspect |-> projAspect], w, vh)
                 IN  /\ surface' = c.surface
                     /\ aspect' = c.aspect
                     /\ projAspect' = c.projAspect
                     /\ lastThrow' = "none"
                     /\ lastResize' = <<w, vh>>
            ELSE /\ lastThrow' = "TypeError"
                 /\ UNCHANGED <<surface, aspect, projAspect, lastResize>>
       ELSE UNCHANGED <<surface, aspect, projAspect, lastThrow, lastResize>>
    /\ UNCHANGED <<mount, childAttached, listener, pendingFrames, nextHandle,
                   errLog, pc, cleanupPromise, rendererSt, controlsSt, scene,
                   cubeGroup, animId, frames, rendererDisposals,
                   controlsDisposals, detachCalls, closureCalls, closureThrows,
                   tdLog, tdWhilePending, tdMountMissing, gridVars>>

\* the page layout changes the mount region's width; no resize event
LayoutChange(w) ==
    /\ mount
    /\ w # mountW
    /\ mountW' = w
    /\ UNCHANGED <<mount, innerH, childAttached, listener, pendingFrames,
                   nextHandle, errLog, sessVars, histVars, gridVars>>

\* the host removes the mount region: React sets mountRef.current to null
DetachRef ==
    /\ pc # "idle"
    /\ mount
    /\ mount' = FALSE
    /\ UNCHANGED <<mountW, innerH, childAttached, listener, pendingFrames,
                   nextHandle, errLog, sessVars, histVars, gridVars>>

\* lines 97-99: the effect's returned cleanup is invoked by the host
Teardown ==
    /\ pc # "idle"
    /\ detachCalls < MaxDetach
    /\ detachCalls' = detachCalls + 1
    /\ tdWhilePending' = (tdWhilePending \/ pc \in {"awaitThree", "awaitControls"})
    /\ IF cleanupPromise
       THEN LET r == cleanup(Resources)
            IN  /\ listener' = r.listener
                /\ pendingFrames' = r.pendingFrames
                /\ controlsSt' = r.controlsSt
                /\ rendererSt' = r.rendererSt
                /\ controlsDisposals' = r.controlsDisposals
                /\ rendererDisposals' = r.rendererDisposals
                /\ childAttached' = r.childAttached
                /\ closureCalls' = closureCalls + 1
                /\ closureThrows' = closureThrows + (IF r.thrown # "none" THEN 1 ELSE 0)
                /\ lastThrow' = r.thrown
                /\ tdLog' = r.log
                /\ tdMountMissing' = (tdMountMissing \/ ~mount)
       ELSE UNCHANGED <<listener, pendingFrames, controlsSt, rendererSt,
                        controlsDisposals, rendererDisposals, childAttached,
                        closureCalls, closureThrows, lastThrow, tdLog,
                        tdMountMissing>>
    /\ UNCHANGED <<mount, mountW, innerH, nextHandle, errLog, pc,
                   cleanupPromise, surface, aspect, projAspect, scene,
                   cubeGroup, animId, frames, lastResize, gridVars>>

Next ==
    \/ EffectMount
    \/ ImportThreeResolves
    \/ ImportRejects
    \/ InitContinues
    \/ FrameTick
    \/ \E w \in Widths, vh \in Heights : Resize(w, vh)
    \/ \E w \in Widths : LayoutChange(w)
    \/ DetachRef
    \/ Teardown

Spec == Init /\ [][Next]_vars

\* the states of section 4.2, read off the program's state
phase ==
    CASE pc = "idle" -> "Uninitialized"
      [] pc \in {"awaitThree", "awaitControls", "failed"} -> "Initializing"
      [] pc = "done" /\ closureCalls = 0 -> "Running"
      [] OTHER -> "Disposed"

(***************************************************************************)
(* buildCubeGrid applied to GridSpecs                                      *)
(***************************************************************************)
InitGrid ==
    /\ mount = TRUE
    /\ mountW = 0
    /\ innerH = 600
    /\ childAttached = FALSE
    /\ listener = FALSE
    /\ pendingFrames = {}
    /\ nextHandle = 1
    /\ errLog = <<>>
    /\ pc = "idle"
    /\ cleanupPromise = FALSE
    /\ rendererSt = "none"
    /\ controlsSt = "none"
    /\ surface = <<0, 0>>
    /\ aspect = NoRatio
    /\ projAspect = NoRatio
    /\ scene = <<>>
    /\ cubeGroup = NoGroup
    /\ animId = 0
    /\ frames = 0
    /\ rendererDisposals = 0
    /\ controlsDisposals = 0
    /\ detachCalls = 0
    /\ closureCalls = 0
    /\ closureThrows = 0
    /\ lastThrow = "none"
    /\ tdLog = <<>>
    /\ tdWhilePending = FALSE
    /\ tdMountMissing = FALSE
    /\ lastResize = <<>>
    /\ gn \in GridNs
    /\ gsize \in GridSizes

\* line 52: cubeGroup = buildCubeGrid(n, size)
Build ==
    /\ ~cubeGroup.built
    /\ cubeGroup' = buildCubeGrid(gn, gsize)
    /\ UNCHANGED <<hostVars, pc, cleanupPromise, rendererSt, controlsSt,
                   surface, aspect, projAspect, scene, animId, histVars,
                   gridVars>>

\* a new GridSpec replaces the built one
NewGridSpec(n, size) ==
    /\ cubeGroup.built
    /\ gn' = n
    /\ gsize' = size
    /\ cubeGroup' = NoGroup
    /\ UNCHANGED <<hostVars, pc, cleanupPromise, rendererSt, controlsSt,
                   surface, aspect, projAspect, scene, animId, histVars>>

NextGrid ==
    \/ Build
    \/ \E n \in GridNs, size \in GridSizes : NewGridSpec(n, size)

SpecGrid == InitGrid /\ [][NextGrid]_vars

(***************************************************************************)
(* Claims about the lifecycle (checked under Spec)                         *)
(***************************************************************************)

\* C1: if the effect's cleanup is requested while init is still waiting for
\* an import, the session never reaches Running: no renderer surface in the
\* mount region, no resize listener, no scene geometry, no requested frame.
C1_DisposalBeforeReady ==
    tdWhilePending =>
        /\ rendererSt = "none"
        /\ ~childAttached
        /\ ~listener
        /\ scene = <<>>
        /\ ~cubeGroup.built
        /\ pendingFrames = {}
        /\ frames = 0

\* C2: for a session that reached Running (mount region still there), two
\* calls of the teardown routine raise nothing, release controls and
\* renderer at most once each, and leave no resize listener.
C2_TeardownIdempotent ==
    (mount /\ closureCalls = 2) =>
        /\ closureThrows = 0
        /\ controlsDisposals <= 1
        /\ rendererDisposals <= 1
        /\ ~listener

\* C3: a teardown of a Running session whose mount region is already gone
\* (mountRef.current null) raises nothing, and deregisters the listener,
\* stops the loop and releases controls and renderer.
C3_TeardownWithoutMount ==
    (closureCalls = 1 /\ tdMountMissing) =>
        /\ closureThrows = 0
        /\ ~listener
        /\ pendingFrames = {}
        /\ controlsSt = "disposed"
        /\ rendererSt = "disposed"

\* C4: every run of the teardown routine executes its five steps in the
\* order: deregister the resize handler, cancel the animation frame, release
\* the controls, release the renderer, detach the surface from the mount
\* region (which removes the surface when the region is there at the first
\* run); hence once controls or renderer are released no resize listener is
\* registered and no frame is pending.
C4_TeardownOrder ==
    /\ closureCalls > 0 =>
          tdLog = <<"removeEventListener", "cancelAnimationFrame",
                    "controls.dispose", "renderer.dispose", "removeChild">>
    /\ (closureCalls = 1 /\ ~tdMountMissing) =>
          (closureThrows = 0 /\ ~childAttached)
    /\ closureCalls > 0 => (controlsSt = "disposed" /\ rendererSt = "disposed")
    /\ (rendererSt = "disposed" \/ controlsSt = "disposed") =>
          (~listener /\ pendingFrames = {})

C4_Witness ==
    /\ closureCalls = 1
    /\ closureThrows = 0
    /\ ~childAttached
    /\ controlsSt = "disposed"
    /\ frames >= 2
    /\ lastResize # <<>>

\* C5: the session moves only Uninitialized -> Initializing -> Running ->
\* Disposed; while Initializing no frame has been rendered and the scene is
\* empty; a frame tick happens only in Running and requests the next one;
\* once Disposed no frame tick happens and none is pending.
C5_StateMachine ==
    [][ /\ phase' # phase =>
              <<phase, phase'>> \in {<<"Uninitialized", "Initializing">>,
                                     <<"Initializing", "Running">>,
                                     <<"Running", "Disposed">>}
        /\ phase = "Initializing" => (frames = 0 /\ scene = <<>>)
        /\ phase' = "Initializing" => (frames' = 0 /\ scene' = <<>>)
        /\ frames' # frames =>
              /\ frames' = frames + 1
              /\ phase' = "Running"
              /\ pendingFrames' # {}
        /\ phase = "Disposed" => (frames' = frames /\ pendingFrames' = {})
      ]_vars

C5_Witness ==
    /\ phase = "Disposed"
    /\ frames = MaxFrames
    /\ pendingFrames = {}

\* C6: if an import rejects, the failure is logged exactly once, init is not
\* tried again, nothing of the session is ever created, and a later teardown
\* request does nothing and raises nothing.
C6_AcquisitionFailure ==
    (\E i \in 1..Len(errLog) : errLog[i] = "ImportError") =>
        /\ errLog = <<"ImportError">>
        /\ pc = "failed"
        /\ ~cleanupPromise
        /\ rendererSt = "none"
        /\ controlsSt = "none"
        /\ ~childAttached
        /\ ~listener
        /\ scene = <<>>
        /\ pendingFrames = {}
        /\ frames = 0
        /\ closureCalls = 0
        /\ lastThrow = "none"

C6_Witness ==
    /\ errLog = <<"ImportError">>
    /\ detachCalls = MaxDetach
    /\ ~mount

\* C9: in a session that was set up, the camera aspect equals surface width
\* over surface height and the projection was computed from that aspect;
\* after a handled resize event with mount width w and viewport height vh
\* the surface is (w, max(400, 0.45 * vh)).  (Units: 1 / 20 pixel.)
C9_ResizeAspect ==
    /\ rendererSt # "none" =>
          /\ surface[2] > 0
          /\ aspect[2] > 0
          /\ aspect[1] * surface[2] = surface[1] * aspect[2]
          /\ projAspect = aspect
    /\ lastResize # <<>> =>
          /\ surface[1] = 20 * lastResize[1]
          /\ surface[2] = IF 9 * lastResize[2] >= 8000
                          THEN 9 * lastResize[2] ELSE 8000

C9_Witness ==
    /\ phase = "Running"
    /\ lastResize = <<800, 1200>>
    /\ surface = <<16000, 10800>>
    /\ aspect # NoRatio
    /\ frames >= 2

\* C10: at most one animation frame is pending at any time, animId is its
\* handle, and after the teardown routine ran none is pending.
C10_SinglePendingFrame ==
    /\ Cardinality(pendingFrames) <= 1
    /\ pendingFrames # {} => pendingFrames = {animId}
    /\ closureCalls > 0 => pendingFrames = {}

C10_Witness ==
    /\ closureCalls > 0
    /\ frames >= 2
    /\ animId >= 2
    /\ lastResize # <<>>
    /\ pendingFrames = {}

(***************************************************************************)
(* Claims about buildCubeGrid (checked under SpecGrid)                     *)
(***************************************************************************)

\* the segments THREE.LineSegments draws from a flat position array: vertex
\* pairs, three numbers per vertex
SegmentsOf(lines) ==
    [k \in 1..(Len(lines) \div 6) |->
        << <<lines[6 * k - 5], lines[6 * k - 4], lines[6 * k - 3]>>,
           <<lines[6 * k - 2], lines[6 * k - 1], lines[6 * k]>> >>]

RECURSIVE SumLen(_, _)
SumLen(grids, f) ==
    IF f = 0 THEN 0 ELSE Len(SegmentsOf(grids[f])) + SumLen(grids, f - 1)

\* C7: for every n >= 1 and size > 0 the group has 2 * (n - 1) segments on
\* each of its 6 faces, 12 * (n - 1) in all, and 12 wireframe edges.
C7_GridSegmentCount ==
    cubeGroup.built =>
        /\ Len(cubeGroup.grids) = 6
        /\ \A f \in 1..6 :
              /\ Len(cubeGroup.grids[f]) = 6 * Len(SegmentsOf(cubeGroup.grids[f]))
              /\ Len(SegmentsOf(cubeGroup.grids[f])) = 2 * (gn - 1)
        /\ SumLen(cubeGroup.grids, 6) = 12 * (gn - 1)
        /\ Cardinality(cubeGroup.edges) = 12

C7_Witness ==
    /\ cubeGroup.built
    /\ gn = 1
    /\ gsize # DefaultSize
    /\ \A f \in 1..6 : cubeGroup.grids[f] = <<>>

\* C8: every grid vertex of face f has its coordinate along the face normal
\* at sign * (size / 2 + 0.001) and its in-plane coordinates within
\* [-size / 2, size / 2]; every segment keeps one in-plane coordinate at
\* t = -size / 2 + i * (size / n), i in 1 .. n - 1, and runs from -size / 2
\* to size / 2 in the other.  (Units: 1 / (2 * n) thousandths.)
C8_GridOnSurface ==
    cubeGroup.built =>
        LET hf == gsize * gn
            eps == 2 * gn
            axis == <<3, 3, 1, 1, 2, 2>>
            sign == <<1, -1, 1, -1, 1, -1>>
            ts == {-hf + i * (2 * gsize) : i \in 1..(gn - 1)}
        IN  \A f \in 1..6 :
              \A k \in 1..Len(SegmentsOf(cubeGroup.grids[f])) :
                LET seg == SegmentsOf(cubeGroup.grids[f])[k]
                    inPlane == (1..3) \ {axis[f]}
                IN  /\ \A e \in 1..2 :
                          /\ seg[e][axis[f]] = sign[f] * (hf + eps)
                          /\ \A a \in inPlane : seg[e][a] >= -hf /\ seg[e][a] <= hf
                    /\ \E a \in inPlane :
                          /\ seg[1][a] = seg[2][a]
                          /\ seg[1][a] \in ts
                          /\ \A b \in inPlane \ {a} :
                                {seg[1][b], seg[2][b]} = {-hf, hf}

C8_Witness ==
    /\ cubeGroup.built
    /\ gn = MaxN
    /\ gsize = DefaultSize
    /\ Len(cubeGroup.grids[2]) > 0
    /\ cubeGroup.grids[2][1] = gsize * gn

====
